---- MODULE Spec2Model ----
(***************************************************************************)
(* Model of the schedule LINE bot: the SQLite event store                  *)
(* (database.py), the reminder polling loop (reminder.py) and the store    *)
(* calls of the webhook command path (app.py).                             *)
(*                                                                         *)
(* Time is counted in whole minutes.  Event times are localized with the   *)
(* store's fixed-offset timezone, so the ISO-8601 strings the SQL compares *)
(* are ordered exactly like the instants they denote; a time is therefore  *)
(* an integer and the SQL text comparisons are integer comparisons.        *)
(***************************************************************************)
EXTENDS Integers, Sequences, FiniteSets, TLC

VARIABLES
    schedules,   \* table schedules: row id |-> row (ids are 1..Len, AUTOINCREMENT)
    now,         \* wall clock, minutes
    ticks,       \* number of clock advances so far (bounds the clock)
    adding,      \* add_schedule calls in progress past the duplicate SELECT
    ret,         \* the last completed store call (command path, or a direct
                 \* mark_as_notified call) and what it returned
    is_running,  \* ReminderSystem.is_running
    threads,     \* the ReminderThread activities ever spawned
    sent,        \* history: successful pushes per <<id, reminder_type>>
    failed,      \* history: <<id, reminder_type, clock reading>> of the latest failed
                 \* push not yet followed by a delivered one, <<>> when there is none
    reply        \* the last inbound command handled by handle_message and the
                 \* reply_message calls made for it

vars == <<schedules, now, ticks, adding, ret, is_running, threads, sent, failed, reply>>

-----------------------------------------------------------------------------
(* Bounds of the model *)

MaxRows == 2        \* rows ever inserted
MaxAdders == 2      \* add_schedule calls in progress at once
MaxTicks == 2       \* clock advances
MaxThreads == 1     \* ReminderThread activities ever spawned (Spec)
MaxSpawns == 2      \* ReminderThread activities ever spawned (SpecLoop)
MaxSends == 2       \* successful pushes counted per <<id, reminder_type>>

Users == {"u1", "u2"}
LoopUsers == {"u1"}           \* the owners whose commands interleave with the polling loop
Titles == {"a"}
EventTimes == {61, 1411}      \* event times the parser hands to add_schedule
TickSteps == {1, 45}    \* minutes the clock may advance in one step
ReminderTypes == {"1day", "1hour", "15min"}

-----------------------------------------------------------------------------
(* database.py *)

\* default LIMIT of get_schedules
DefaultLimit == 50

\* a freshly inserted row: the three flags and is_deleted take DEFAULT 0
NewRow(user_id, title, event_time) ==
    [user_id |-> user_id, title |-> title, event_time |-> event_time,
     is_notified_1day |-> FALSE, is_notified_1hour |-> FALSE,
     is_notified_15min |-> FALSE, is_deleted |-> FALSE]

Ids(rows) == 1..Len(rows)

\* SELECT id ... WHERE user_id = ? AND event_time = ? AND title = ? AND is_deleted = 0
DuplicateSelect(rows, user_id, title, event_time) ==
    {i \in Ids(rows) : /\ rows[i].user_id = user_id
                       /\ rows[i].event_time = event_time
                       /\ rows[i].title = title
                       /\ ~rows[i].is_deleted}

\* UNIQUE(user_id, event_time, title): the constraint covers every row of the table
UniqueViolated(rows, user_id, title, event_time) ==
    \E i \in Ids(rows) : /\ rows[i].user_id = user_id
                         /\ rows[i].event_time = event_time
                         /\ rows[i].title = title

\* ORDER BY event_time: the ids of idset in ascending event_time order, rows of
\* equal event_time in rowid order
OrderByEventTime(rows, idset) ==
    LET earlier(i, j) == \/ rows[i].event_time < rows[j].event_time
                         \/ rows[i].event_time = rows[j].event_time /\ i < j
        member(i) == i \in idset
    IN  SortSeq(SelectSeq([i \in 1..Len(rows) |-> i], member), earlier)

Min(a, b) == IF a <= b THEN a ELSE b

\* mutant: the end bound is compared with < instead of <=
get_schedules_end_exclusive(rows, user_id, start_time, end_time, limit) ==
    LET match == {i \in Ids(rows) :
                    /\ rows[i].user_id = user_id
                    /\ ~rows[i].is_deleted
                    /\ (start_time # <<>> => rows[i].event_time >= start_time[1])
                    /\ (end_time # <<>> => rows[i].event_time < end_time[1])}
        ordered == OrderByEventTime(rows, match)
    IN  SubSeq(ordered, 1, Min(limit, Len(ordered)))

\* get_schedules: start_time / end_time are <<>> for None, <<t>> for a time
get_schedules(rows, user_id, start_time, end_time, limit) ==
    LET match == {i \in Ids(rows) :
                    /\ rows[i].user_id = user_id
                    /\ ~rows[i].is_deleted
                    /\ (start_time # <<>> => rows[i].event_time >= start_time[1])
                    /\ (end_time # <<>> => rows[i].event_time <= end_time[1])}
        ordered == OrderByEventTime(rows, match)
    IN  SubSeq(ordered, 1, Min(limit, Len(ordered)))

\* UPDATE schedules SET is_deleted = 1 WHERE id = ? AND user_id = ? AND is_deleted = 0
DeleteMatches(rows, schedule_id, user_id) ==
    /\ schedule_id \in Ids(rows)
    /\ rows[schedule_id].user_id = user_id
    /\ ~rows[schedule_id].is_deleted

\* mutant: the windows are open at their upper end
reminder_type_open_window(row, time_diff) ==
    IF ~row.is_notified_1day /\ 1410 <= time_diff /\ time_diff < 1470 THEN "1day"
    ELSE IF ~row.is_notified_1hour /\ 55 <= time_diff /\ time_diff < 65 THEN "1hour"
    ELSE IF ~row.is_notified_15min /\ 13 <= time_diff /\ time_diff < 17 THEN "15min"
    ELSE "none"

\* mutant: the flag columns are not consulted
reminder_type_ignoring_flags(row, time_diff) ==
    IF 1410 <= time_diff /\ time_diff <= 1470 THEN "1day"
    ELSE IF 55 <= time_diff /\ time_diff <= 65 THEN "1hour"
    ELSE IF 13 <= time_diff /\ time_diff <= 17 THEN "15min"
    ELSE "none"

\* mutant: the 15min window is the single minute 15
reminder_type_narrow_window(row, time_diff) ==
    IF ~row.is_notified_1day /\ 1410 <= time_diff /\ time_diff <= 1470 THEN "1day"
    ELSE IF ~row.is_notified_1hour /\ 55 <= time_diff /\ time_diff <= 65 THEN "1hour"
    ELSE IF ~row.is_notified_15min /\ 15 <= time_diff /\ time_diff <= 15 THEN "15min"
    ELSE "none"


\* the threshold chosen by the if / elif / elif chain, "none" when no branch fires
reminder_type(row, time_diff) ==
    IF ~row.is_notified_1day /\ 1410 <= time_diff /\ time_diff <= 1470 THEN "1day"
    ELSE IF ~row.is_notified_1hour /\ 55 <= time_diff /\ time_diff <= 65 THEN "1hour"
    ELSE IF ~row.is_notified_15min /\ 13 <= time_diff /\ time_diff <= 17 THEN "15min"
    ELSE "none"

\* mutant: the SELECT lacks  is_deleted = 0
ReminderCandidates_with_deleted(rows, t) ==
    {i \in Ids(rows) : rows[i].event_time > t}


\* the rows the reminder SELECT fetches: is_deleted = 0 AND event_time > now
ReminderCandidates(rows, t) ==
    {i \in Ids(rows) : ~rows[i].is_deleted /\ rows[i].event_time > t}

\* get_schedules_for_reminder, evaluated at clock reading t
get_schedules_for_reminder(rows, t) ==
    LET due == {i \in ReminderCandidates(rows, t) :
                    reminder_type(rows[i], rows[i].event_time - t) # "none"}
        ordered == OrderByEventTime(rows, due)
    IN  [k \in 1..Len(ordered) |->
            [id |-> ordered[k],
             user_id |-> rows[ordered[k]].user_id,
             reminder_type |-> reminder_type(rows[ordered[k]],
                                             rows[ordered[k]].event_time - t)]]

\* mutant: the UPDATE rewrites all three flag columns, keeping only the new one
mark_as_notified_overwriting(rows, schedule_id, rtype) ==
    IF rtype \notin ReminderTypes \/ schedule_id \notin Ids(rows) THEN rows
    ELSE [rows EXCEPT ![schedule_id].is_notified_1day = (rtype = "1day"),
                      ![schedule_id].is_notified_1hour = (rtype = "1hour"),
                      ![schedule_id].is_notified_15min = (rtype = "15min")]

\* mutant: an unknown reminder_type falls back to the 15min column
mark_as_notified_defaulting(rows, schedule_id, rtype) ==
    IF schedule_id \notin Ids(rows) THEN rows
    ELSE IF rtype = "1day"
         THEN [rows EXCEPT ![schedule_id].is_notified_1day = TRUE]
    ELSE IF rtype = "1hour"
         THEN [rows EXCEPT ![schedule_id].is_notified_1hour = TRUE]
    ELSE [rows EXCEPT ![schedule_id].is_notified_15min = TRUE]

\* mutant: the row is written back whole from a read taken before a
\* concurrent delete, so is_deleted returns to 0
mark_as_notified_undeleting(rows, schedule_id, rtype) ==
    IF rtype \notin ReminderTypes \/ schedule_id \notin Ids(rows) THEN rows
    ELSE IF rtype = "1day"
         THEN [rows EXCEPT ![schedule_id].is_notified_1day = TRUE,
                           ![schedule_id].is_deleted = FALSE]
    ELSE IF rtype = "1hour"
         THEN [rows EXCEPT ![schedule_id].is_notified_1hour = TRUE,
                           ![schedule_id].is_deleted = FALSE]
    ELSE [rows EXCEPT ![schedule_id].is_notified_15min = TRUE,
                      ![schedule_id].is_deleted = FALSE]


\* mark_as_notified: column_map.get(reminder_type), then UPDATE ... WHERE id = ?
mark_as_notified(rows, schedule_id, rtype) ==
    IF rtype \notin ReminderTypes \/ schedule_id \notin Ids(rows) THEN rows
    ELSE IF rtype = "1day"
         THEN [rows EXCEPT ![schedule_id].is_notified_1day = TRUE]
    ELSE IF rtype = "1hour"
         THEN [rows EXCEPT ![schedule_id].is_notified_1hour = TRUE]
    ELSE [rows EXCEPT ![schedule_id].is_notified_15min = TRUE]

\* the notified set of a row, read off its three flag columns
Notified(row) ==
    {t \in ReminderTypes :
        \/ t = "1day" /\ row.is_notified_1day
        \/ t = "1hour" /\ row.is_notified_1hour
        \/ t = "15min" /\ row.is_notified_15min}

-----------------------------------------------------------------------------
(* Return values of the store calls of the command path.  id 0 stands for  *)
(* None; message tags: "added" (新增成功), "exists" (這個行程已經存在了),    *)
(* "integrity" (行程已存在), "add_failed" (新增失敗), "deleted" (刪除成功), *)
(* "not_found" (找不到這個行程), "delete_failed" (刪除失敗), "raised" (the   *)
(* call let an exception through).                                         *)

Ret(op, success, id, message, rows) ==
    [op |-> op, success |-> success, id |-> id, message |-> message, rows |-> rows]

NoRet == Ret("none", FALSE, 0, "", <<>>)

\* the inbound command last handled and the texts passed to reply_message for it
Reply(cmd, texts) == [cmd |-> cmd, texts |-> texts]

NoReply == Reply("none", <<>>)

Remove(seq, i) == SubSeq(seq, 1, i - 1) \o SubSeq(seq, i + 1, Len(seq))

Init ==
    /\ schedules = <<>>
    /\ now = 0
    /\ ticks = 0
    /\ adding = <<>>
    /\ ret = NoRet
    /\ is_running = FALSE
    /\ threads = <<>>
    /\ sent = [p \in (1..MaxRows) \X ReminderTypes |-> 0]
    /\ failed = <<>>
    /\ reply = NoReply

\* the clock advances
Tick(d) ==
    /\ ticks < MaxTicks
    /\ now' = now + d
    /\ ticks' = ticks + 1
    /\ UNCHANGED <<schedules, adding, ret, is_running, threads, sent, failed, reply>>

-----------------------------------------------------------------------------
(* add_schedule: the duplicate SELECT and the INSERT are two statements on *)
(* the caller's own connection; other connections may act in between.      *)

\* the SELECT finds a live duplicate: return False, None, '這個行程已經存在了'
add_schedule_exists(user_id, title, event_time) ==
    /\ DuplicateSelect(schedules, user_id, title, event_time) # {}
    /\ ret' = Ret("add", FALSE, 0, "exists", <<>>)
    /\ UNCHANGED <<schedules, now, ticks, adding, is_running, threads, sent, failed, reply>>

\* the SELECT finds nothing: the call goes on to the INSERT
add_schedule_select(user_id, title, event_time) ==
    /\ Len(adding) < MaxAdders
    /\ DuplicateSelect(schedules, user_id, title, event_time) = {}
    /\ LET same == {i \in 1..Len(adding) :
                        /\ adding[i].outcome = "pending"
                        /\ adding[i].user_id = user_id
                        /\ adding[i].title = title
                        /\ adding[i].event_time = event_time}
       IN  adding' = Append([i \in 1..Len(adding) |->
                                IF i \in same THEN [adding[i] EXCEPT !.raced = TRUE]
                                ELSE adding[i]],
                            [user_id |-> user_id, title |-> title,
                             event_time |-> event_time, outcome |-> "pending",
                             id |-> 0, raced |-> same # {}])
    /\ UNCHANGED <<schedules, now, ticks, ret, is_running, threads, sent, failed, reply>>

\* the INSERT: IntegrityError when the UNIQUE constraint is violated, else a new row
add_schedule_insert(i) ==
    /\ i \in 1..Len(adding)
    /\ adding[i].outcome = "pending"
    /\ IF UniqueViolated(schedules, adding[i].user_id, adding[i].title,
                         adding[i].event_time)
       THEN /\ adding' = [adding EXCEPT ![i].outcome = "integrity"]
            /\ UNCHANGED schedules
       ELSE /\ Len(schedules) < MaxRows
            /\ schedules' = Append(schedules,
                                   NewRow(adding[i].user_id, adding[i].title,
                                          adding[i].event_time))
            /\ adding' = [adding EXCEPT ![i].outcome = "added",
                                        ![i].id = Len(schedules) + 1]
    /\ UNCHANGED <<now, ticks, ret, is_running, threads, sent, failed, reply>>

\* the store fails during the INSERT or the commit: except Exception
add_schedule_error(i) ==
    /\ i \in 1..Len(adding)
    /\ adding[i].outcome = "pending"
    /\ adding' = [adding EXCEPT ![i].outcome = "add_failed"]
    /\ UNCHANGED <<schedules, now, ticks, ret, is_running, threads, sent, failed, reply>>

\* the call returns (success, schedule_id, message) to handle_add_schedule
add_schedule_return(i) ==
    /\ i \in 1..Len(adding)
    /\ adding[i].outcome # "pending"
    /\ ret' = Ret("add", adding[i].outcome = "added", adding[i].id,
                  adding[i].outcome, <<>>)
    /\ adding' = Remove(adding, i)
    /\ UNCHANGED <<schedules, now, ticks, is_running, threads, sent, failed, reply>>

-----------------------------------------------------------------------------
(* delete_schedule and get_schedules: one SQL statement each *)

\* mutant: the UPDATE lacks  AND user_id = ?
delete_schedule_any_owner(schedule_id, user_id) ==
    /\ IF schedule_id \in Ids(schedules) /\ ~schedules[schedule_id].is_deleted
       THEN /\ schedules' = [schedules EXCEPT ![schedule_id].is_deleted = TRUE]
            /\ ret' = Ret("delete", TRUE, 0, "deleted", <<>>)
       ELSE /\ ret' = Ret("delete", FALSE, 0, "not_found", <<>>)
            /\ UNCHANGED schedules
    /\ UNCHANGED <<now, ticks, adding, is_running, threads, sent, failed, reply>>

delete_schedule(schedule_id, user_id) ==
    /\ IF DeleteMatches(schedules, schedule_id, user_id)
       THEN /\ schedules' = [schedules EXCEPT ![schedule_id].is_deleted = TRUE]
            /\ ret' = Ret("delete", TRUE, 0, "deleted", <<>>)
       ELSE /\ ret' = Ret("delete", FALSE, 0, "not_found", <<>>)
            /\ UNCHANGED schedules
    /\ UNCHANGED <<now, ticks, adding, is_running, threads, sent, failed, reply>>

\* the store fails during the UPDATE: except Exception
delete_schedule_error(schedule_id, user_id) ==
    /\ ret' = Ret("delete", FALSE, 0, "delete_failed", <<>>)
    /\ UNCHANGED <<schedules, now, ticks, adding, is_running, threads, sent, failed, reply>>

list_schedules(user_id, start_time, end_time) ==
    /\ ret' = Ret("list", TRUE, 0, "",
                  get_schedules(schedules, user_id, start_time, end_time, DefaultLimit))
    /\ UNCHANGED <<schedules, now, ticks, adding, is_running, threads, sent, failed, reply>>

\* the store fails during the SELECT: get_schedules lets the exception through
list_schedules_error(user_id, start_time, end_time) ==
    /\ ret' = Ret("list", FALSE, 0, "raised", <<>>)
    /\ UNCHANGED <<schedules, now, ticks, adding, is_running, threads, sent, failed, reply>>

-----------------------------------------------------------------------------
(* reminder.py.  A thread is [pc, reminders]: pc is its position in        *)
(* _check_loop / _check_and_send_reminders, reminders the part of the      *)
(* fetched list the for loop has not finished; its head is the item in     *)
(* hand.                                                                   *)
(*   "warmup"  time.sleep(90)                                              *)
(*   "loop"    at the test of  while self.is_running                       *)
(*   "cycle"   entering _check_and_send_reminders                          *)
(*   "send"    before _send_push_message of the head item                  *)
(*   "mark"    push done, before mark_as_notified of the head item         *)
(*   "sleep"   time.sleep(self.check_interval)                             *)
(*   "exited"  the loop has ended                                          *)

\* mutant: start() spawns a ReminderThread although is_running is set
start_already_running_spawning ==
    /\ is_running
    /\ threads' = Append(threads, [pc |-> "warmup", reminders |-> <<>>])
    /\ UNCHANGED <<schedules, now, ticks, adding, ret, is_running, sent, failed, reply>>


\* start() while is_running: logs and returns
start_already_running ==
    /\ is_running
    /\ UNCHANGED vars

\* start(): sets is_running and spawns the ReminderThread
start ==
    /\ ~is_running
    /\ is_running' = TRUE
    /\ threads' = Append(threads, [pc |-> "warmup", reminders |-> <<>>])
    /\ UNCHANGED <<schedules, now, ticks, adding, ret, sent, failed, reply>>

stop ==
    /\ is_running' = FALSE
    /\ UNCHANGED <<schedules, now, ticks, adding, ret, threads, sent, failed, reply>>

\* time.sleep(90) / time.sleep(check_interval) returns
wake(th) ==
    /\ th \in 1..Len(threads)
    /\ threads[th].pc \in {"warmup", "sleep"}
    /\ threads' = [threads EXCEPT ![th].pc = "loop"]
    /\ UNCHANGED <<schedules, now, ticks, adding, ret, is_running, sent, failed, reply>>

\* while self.is_running
check_loop(th) ==
    /\ th \in 1..Len(threads)
    /\ threads[th].pc = "loop"
    /\ threads' = [threads EXCEPT ![th].pc = IF is_running THEN "cycle" ELSE "exited"]
    /\ UNCHANGED <<schedules, now, ticks, adding, ret, is_running, sent, failed, reply>>

\* where the for loop stands once the head item is done with
NextItem(thread) ==
    [pc |-> IF Len(thread.reminders) > 1 THEN "send" ELSE "sleep",
     reminders |-> Tail(thread.reminders)]

\* reminders = self.db.get_schedules_for_reminder(); if not reminders: return
fetch_reminders(th) ==
    /\ th \in 1..Len(threads)
    /\ threads[th].pc = "cycle"
    /\ LET reminders == get_schedules_for_reminder(schedules, now)
       IN  threads' = [threads EXCEPT
                          ![th] = [pc |-> IF reminders = <<>> THEN "sleep" ELSE "send",
                                   reminders |-> reminders]]
    /\ UNCHANGED <<schedules, now, ticks, adding, ret, is_running, sent, failed, reply>>

\* mutant: the store error is not caught by _check_loop and ends the thread
fetch_reminders_error_exiting(th) ==
    /\ th \in 1..Len(threads)
    /\ threads[th].pc = "cycle"
    /\ threads' = [threads EXCEPT ![th] = [pc |-> "exited", reminders |-> <<>>]]
    /\ UNCHANGED <<schedules, now, ticks, adding, ret, is_running, sent, failed, reply>>


\* the store fails during the reminder query: caught by _check_loop, cycle abandoned
fetch_reminders_error(th) ==
    /\ th \in 1..Len(threads)
    /\ threads[th].pc = "cycle"
    /\ threads' = [threads EXCEPT ![th] = [pc |-> "sleep", reminders |-> <<>>]]
    /\ UNCHANGED <<schedules, now, ticks, adding, ret, is_running, sent, failed, reply>>

\* _send_push_message returns: the push was delivered
send_push_message(th) ==
    /\ th \in 1..Len(threads)
    /\ threads[th].pc = "send"
    /\ LET r == Head(threads[th].reminders)
           p == <<r.id, r.reminder_type>>
       IN  /\ sent[p] < MaxSends
           /\ sent' = [sent EXCEPT ![p] = @ + 1]
           /\ failed' = IF failed # <<>> /\ <<failed[1], failed[2]>> = p THEN <<>> ELSE failed
    /\ threads' = [threads EXCEPT ![th].pc = "mark"]
    /\ UNCHANGED <<schedules, now, ticks, adding, ret, is_running, reply>>

\* mutant: the failure is swallowed and the item is marked all the same
send_push_message_error_marking(th) ==
    /\ th \in 1..Len(threads)
    /\ threads[th].pc = "send"
    /\ LET r == Head(threads[th].reminders)
       IN  /\ failed' = <<r.id, r.reminder_type, now>>
           /\ schedules' = mark_as_notified(schedules, r.id, r.reminder_type)
    /\ threads' = [threads EXCEPT ![th] = NextItem(threads[th])]
    /\ UNCHANGED <<now, ticks, adding, ret, is_running, sent, reply>>

\* mutant: the failure escapes the for loop and the rest of the cycle is dropped
send_push_message_error_aborting(th) ==
    /\ th \in 1..Len(threads)
    /\ threads[th].pc = "send"
    /\ LET r == Head(threads[th].reminders)
       IN  failed' = <<r.id, r.reminder_type, now>>
    /\ threads' = [threads EXCEPT ![th] = [pc |-> "sleep", reminders |-> <<>>]]
    /\ UNCHANGED <<schedules, now, ticks, adding, ret, is_running, sent, reply>>


\* _send_push_message raises: the per-item except logs it, the loop goes on
send_push_message_error(th) ==
    /\ th \in 1..Len(threads)
    /\ threads[th].pc = "send"
    /\ LET r == Head(threads[th].reminders)
       IN  failed' = <<r.id, r.reminder_type, now>>
    /\ threads' = [threads EXCEPT ![th] = NextItem(threads[th])]
    /\ UNCHANGED <<schedules, now, ticks, adding, ret, is_running, sent, reply>>

\* self.db.mark_as_notified(reminder['id'], reminder['reminder_type'])
mark_notified(th) ==
    /\ th \in 1..Len(threads)
    /\ threads[th].pc = "mark"
    /\ LET r == Head(threads[th].reminders)
       IN  schedules' = mark_as_notified(schedules, r.id, r.reminder_type)
    /\ threads' = [threads EXCEPT ![th] = NextItem(threads[th])]
    /\ UNCHANGED <<now, ticks, adding, ret, is_running, sent, failed, reply>>

\* the store fails during mark_as_notified: the per-item except logs it
mark_notified_error(th) ==
    /\ th \in 1..Len(threads)
    /\ threads[th].pc = "mark"
    /\ threads' = [threads EXCEPT ![th] = NextItem(threads[th])]
    /\ UNCHANGED <<schedules, now, ticks, adding, ret, is_running, sent, failed, reply>>

-----------------------------------------------------------------------------
(* app.py: the command handlers as the polling loop sees them.  A handler  *)
(* touches only user_id, title, event_time and is_deleted, the loop only   *)
(* the is_notified columns, so a handler's statements commute with the     *)
(* loop's and the handler is taken in one step.  The parser and the reply *)
(* of a command are modelled with handle_message further down.             *)

\* handle_add_schedule: the parser rejects event_time <= now; then db.add_schedule
handle_add_schedule(user_id, title, event_time) ==
    /\ event_time > now
    /\ IF \/ DuplicateSelect(schedules, user_id, title, event_time) # {}
          \/ UniqueViolated(schedules, user_id, title, event_time)
       THEN UNCHANGED schedules
       ELSE /\ Len(schedules) < MaxRows
            /\ schedules' = Append(schedules, NewRow(user_id, title, event_time))
    /\ UNCHANGED <<now, ticks, adding, ret, is_running, threads, sent, failed, reply>>

\* mutant: the UPDATE of delete_schedule also sets a reminder flag
handle_delete_schedule_flagging(schedule_id, user_id) ==
    /\ IF DeleteMatches(schedules, schedule_id, user_id)
       THEN schedules' = [schedules EXCEPT ![schedule_id].is_deleted = TRUE,
                                           ![schedule_id].is_notified_15min = TRUE]
       ELSE UNCHANGED schedules
    /\ UNCHANGED <<now, ticks, adding, ret, is_running, threads, sent, failed, reply>>


\* handle_delete_schedule: db.delete_schedule(schedule_id, user_id)
handle_delete_schedule(schedule_id, user_id) ==
    /\ IF DeleteMatches(schedules, schedule_id, user_id)
       THEN schedules' = [schedules EXCEPT ![schedule_id].is_deleted = TRUE]
       ELSE UNCHANGED schedules
    /\ UNCHANGED <<now, ticks, adding, ret, is_running, threads, sent, failed, reply>>

\* show_today_schedules and the other list handlers: a SELECT only
show_schedules(user_id) ==
    /\ get_schedules(schedules, user_id, <<now>>, <<>>, DefaultLimit) \in Seq(Ids(schedules))
    /\ UNCHANGED vars

-----------------------------------------------------------------------------
WindowBounds == {<<>>} \cup {<<t>> : t \in EventTimes}

\* the command path against the store, statement by statement
NextStore ==
    \/ \E u \in Users, t \in Titles, e \in EventTimes : add_schedule_exists(u, t, e)
    \/ \E u \in Users, t \in Titles, e \in EventTimes : add_schedule_select(u, t, e)
    \/ \E i \in 1..MaxAdders : add_schedule_insert(i)
    \/ \E i \in 1..MaxAdders : add_schedule_error(i)
    \/ \E i \in 1..MaxAdders : add_schedule_return(i)
    \/ \E id \in 1..(MaxRows + 1), u \in Users : delete_schedule(id, u)
    \/ \E id \in 1..(MaxRows + 1), u \in Users : delete_schedule_error(id, u)
    \/ \E u \in Users, s \in WindowBounds, e \in WindowBounds : list_schedules(u, s, e)
    \/ \E u \in Users, s \in WindowBounds, e \in WindowBounds :
          list_schedules_error(u, s, e)

SpecStore == Init /\ [][NextStore]_vars

\* the polling loop, the clock and the command handlers
Next ==
    \/ \E d \in TickSteps : Tick(d)
    \/ \E u \in LoopUsers, t \in Titles, e \in EventTimes : handle_add_schedule(u, t, e)
    \/ \E id \in 1..(MaxRows + 1), u \in LoopUsers : handle_delete_schedule(id, u)
    \/ \E u \in LoopUsers : show_schedules(u)
    \/ start_already_running
    \/ Len(threads) < MaxThreads /\ start
    \/ stop
    \/ \E th \in 1..MaxThreads : wake(th)
    \/ \E th \in 1..MaxThreads : check_loop(th)
    \/ \E th \in 1..MaxThreads : fetch_reminders(th)
    \/ \E th \in 1..MaxThreads : fetch_reminders_error(th)
    \/ \E th \in 1..MaxThreads : send_push_message(th)
    \/ \E th \in 1..MaxThreads : send_push_message_error(th)
    \/ \E th \in 1..MaxThreads : mark_notified(th)
    \/ \E th \in 1..MaxThreads : mark_notified_error(th)

Spec == Init /\ [][Next]_vars

\* the polling loop under restarts: one event, up to MaxSpawns activities
LoopEventTimes == {61}

NextLoop ==
    \/ \E d \in TickSteps : Tick(d)
    \/ \E u \in LoopUsers, t \in Titles, e \in LoopEventTimes : handle_add_schedule(u, t, e)
    \/ \E id \in 1..MaxRows, u \in LoopUsers : handle_delete_schedule(id, u)
    \/ start_already_running
    \/ Len(threads) < MaxSpawns /\ start
    \/ stop
    \/ \E th \in 1..MaxSpawns : wake(th)
    \/ \E th \in 1..MaxSpawns : check_loop(th)
    \/ \E th \in 1..MaxSpawns : fetch_reminders(th)
    \/ \E th \in 1..MaxSpawns : fetch_reminders_error(th)
    \/ \E th \in 1..MaxSpawns : send_push_message(th)
    \/ \E th \in 1..MaxSpawns : send_push_message_error(th)
    \/ \E th \in 1..MaxSpawns : mark_notified(th)
    \/ \E th \in 1..MaxSpawns : mark_notified_error(th)

SpecLoop == Init /\ [][NextLoop]_vars

-----------------------------------------------------------------------------
(* Properties of the polling loop (specification Spec) *)

\* the window of a reminder type, as minutes until the event
InWindow(rtype, time_diff) ==
    \/ rtype = "1day" /\ 1410 <= time_diff /\ time_diff <= 1470
    \/ rtype = "1hour" /\ 55 <= time_diff /\ time_diff <= 65
    \/ rtype = "15min" /\ 13 <= time_diff /\ time_diff <= 17

\* minutes-until-event readings around every window edge
Probes == {0, 1, 12, 13, 15, 17, 18, 54, 55, 60, 65, 66, 1409, 1410, 1440, 1470, 1471}

\* <<id, reminder_type>> is in the result of the reminder query at clock reading t
Returned(rows, t, id, rtype) ==
    \E k \in DOMAIN get_schedules_for_reminder(rows, t) :
        /\ get_schedules_for_reminder(rows, t)[k].id = id
        /\ get_schedules_for_reminder(rows, t)[k].reminder_type = rtype

\* some thread has pushed <<id, rtype>> and not yet left the mark step for it
BeingMarked(id, rtype) ==
    \E th \in 1..Len(threads) :
        /\ threads[th].pc = "mark"
        /\ Head(threads[th].reminders).id = id
        /\ Head(threads[th].reminders).reminder_type = rtype

\* C1: every (event, threshold) pair is delivered by the dispatcher at most once.
C1_AtMostOnce ==
    \A p \in DOMAIN sent : sent[p] <= 1

\* C2, at every clock reading: the reminder query returns no (event, threshold)
\* whose notified flag is set.
C2_QueryOmitsNotified ==
    \A i \in Ids(schedules) : \A d \in Probes : \A rtype \in Notified(schedules[i]) :
        ~Returned(schedules, schedules[i].event_time - d, i, rtype)

\* C2, in the loop: the list a cycle fetches holds no (event, threshold) whose flag
\* is set when the cycle fetches it.
C2_FetchOmitsNotified ==
    \A th \in 1..Len(threads) :
        (threads[th].pc = "cycle" /\ threads'[th].pc = "send") =>
            \A k \in 1..Len(threads'[th].reminders) :
                threads'[th].reminders[k].reminder_type
                    \notin Notified(schedules[threads'[th].reminders[k].id])

\* C2: once a threshold is in the notified set of an event, no later scheduler
\* cycle dispatches it: the reminder query never returns an event for a threshold
\* whose notified flag is already set, whatever the current time is.
C2_NotifiedNeverDispatchedAgain ==
    [] C2_QueryOmitsNotified /\ [][C2_FetchOmitsNotified]_vars

\* C2 witness: a delivered and marked threshold whose window is still open, with a
\* later cycle about to query, and the query leaves it out.
C2_Witness ==
    \E i \in Ids(schedules) : \E th \in 1..Len(threads) :
        /\ threads[th].pc = "cycle"
        /\ "1hour" \in Notified(schedules[i])
        /\ sent[<<i, "1hour">>] = 1
        /\ ~schedules[i].is_deleted
        /\ InWindow("1hour", schedules[i].event_time - now)
        /\ get_schedules_for_reminder(schedules, now) = <<>>

\* C3, the failing dispatch: the step that abandons the item in hand without a
\* push changes no row, so mark_as_notified has not run for it.
C3_FailedPushLeavesStore ==
    \A th \in 1..Len(threads) :
        (/\ threads[th].pc = "send"
         /\ th \in DOMAIN threads'
         /\ threads'[th] = NextItem(threads[th])) =>
            /\ schedules' = schedules
            /\ sent' = sent

\* C3, the retry: while the pair whose push failed is still unmarked, not deleted
\* and inside its window, the reminder query returns it again.
C3_FailedPairReturnedAgain ==
    failed # <<>> =>
        LET id == failed[1]
            rtype == failed[2]
        IN  (/\ ~schedules[id].is_deleted
             /\ rtype \notin Notified(schedules[id])
             /\ InWindow(rtype, schedules[id].event_time - now))
                => Returned(schedules, now, id, rtype)

\* C3: a failed dispatch does not mark the event and leaves its notified set
\* unchanged; the next cycle, if the event is still inside the window and not
\* deleted, dispatches the same (event, threshold) again.
C3_FailureIsRetried ==
    [] C3_FailedPairReturnedAgain /\ [][C3_FailedPushLeavesStore]_vars

\* C3 witness: a later cycle, after the clock has advanced, has the pair whose push
\* failed in hand again.
C3_Witness ==
    \E th \in 1..Len(threads) :
        /\ threads[th].pc = "send"
        /\ failed # <<>>
        /\ failed[1] = Head(threads[th].reminders).id
        /\ failed[2] = Head(threads[th].reminders).reminder_type
        /\ Notified(schedules[failed[1]]) = {}
        /\ now > failed[3]

\* C9: the notified set of every event only grows, whatever step is taken.
C9_NotifiedMonotone ==
    [][\A i \in Ids(schedules) :
          /\ i \in Ids(schedules')
          /\ Notified(schedules[i]) \subseteq Notified(schedules'[i])]_vars

\* C9 witness: an event marked for two thresholds and soft-deleted afterwards keeps
\* both.
C9_Witness ==
    \E i \in Ids(schedules) :
        /\ schedules[i].is_deleted
        /\ Notified(schedules[i]) = {"1hour", "15min"}

\* C10: after a cycle in which the dispatch of a due (event, threshold) succeeded,
\* the event's notified set contains the threshold and an immediate second cycle
\* dispatches nothing for the event.
C10_DeliveredIsMarked ==
    \A p \in DOMAIN sent :
        (sent[p] >= 1 /\ ~BeingMarked(p[1], p[2])) =>
            /\ p[2] \in Notified(schedules[p[1]])
            /\ \A rtype \in ReminderTypes : ~Returned(schedules, now, p[1], rtype)

-----------------------------------------------------------------------------
(* Properties of the store under the command path (specification SpecStore) *)

\* some non-deleted row holds the triple
LiveTwin(rows, user_id, title, event_time) ==
    \E j \in Ids(rows) : /\ rows[j].user_id = user_id
                         /\ rows[j].title = title
                         /\ rows[j].event_time = event_time
                         /\ ~rows[j].is_deleted

Range(seq) == {seq[k] : k \in DOMAIN seq}

\* C4, the step in which an add call gets its answer from the store
C4_AddStep ==
    /\ \A u \in Users, t \in Titles, e \in EventTimes :
          add_schedule_exists(u, t, e) =>
              LiveTwin(schedules, u, t, e) /\ schedules' = schedules
    /\ \A i \in 1..Len(adding) :
          (/\ adding[i].outcome = "pending"
           /\ Len(adding') = Len(adding)
           /\ adding'[i].outcome \in {"integrity", "added"}) =>
              IF LiveTwin(schedules, adding[i].user_id, adding[i].title,
                          adding[i].event_time)
              THEN /\ adding'[i].outcome = "integrity"
                   /\ schedules' = schedules
              ELSE /\ adding'[i].outcome = "added"
                   /\ adding'[i].id = Len(schedules) + 1
                   /\ schedules' = Append(schedules,
                                          NewRow(adding[i].user_id, adding[i].title,
                                                 adding[i].event_time))
                   /\ Notified(schedules'[Len(schedules) + 1]) = {}
                   /\ ~schedules'[Len(schedules) + 1].is_deleted

\* C4: add fails with Duplicate exactly when a non-deleted event with the same
\* (owner, eventTime, title) exists, leaving the store unchanged; in every other
\* case, a soft-deleted twin included, it inserts a new record with a fresh id,
\* notified = {} and deleted = false.
C4_AddContract ==
    [][C4_AddStep]_vars

\* C5, the invariant: no two non-deleted rows share (owner, eventTime, title)
C5_Unique ==
    \A i, j \in Ids(schedules) :
        (/\ i # j
         /\ ~schedules[i].is_deleted
         /\ ~schedules[j].is_deleted
         /\ schedules[i].user_id = schedules[j].user_id
         /\ schedules[i].event_time = schedules[j].event_time)
            => schedules[i].title # schedules[j].title

\* C5, the race: of two calls with the same triple that were both between their
\* SELECT and their INSERT at once and both got an answer from the store, exactly
\* one has succeeded
C5_RaceOneWinner ==
    \A i, j \in 1..Len(adding) :
        (/\ i # j
         /\ adding[i].raced /\ adding[j].raced
         /\ adding[i].user_id = adding[j].user_id
         /\ adding[i].title = adding[j].title
         /\ adding[i].event_time = adding[j].event_time
         /\ adding[i].outcome \in {"added", "integrity"}
         /\ adding[j].outcome \in {"added", "integrity"})
            => (adding[i].outcome = "added") # (adding[j].outcome = "added")

\* C5: no two non-deleted events share (owner, eventTime, title), and of two
\* concurrent adds of one triple that interleave between check and insert exactly
\* one succeeds.
C5_UniqueAndOneWinner ==
    C5_Unique /\ C5_RaceOneWinner

\* row id is in no result of get_schedules and of the reminder query
Absent(rows, id) ==
    /\ \A u \in Users, s \in WindowBounds, e \in WindowBounds :
          id \notin Range(get_schedules(rows, u, s, e, DefaultLimit))
    /\ \A d \in Probes : \A rtype \in ReminderTypes :
          ~Returned(rows, rows[id].event_time - d, id, rtype)

\* C6, the call
C6_DeleteStep ==
    \A id \in 1..(MaxRows + 1), u \in Users :
        delete_schedule(id, u) =>
            IF /\ id \in Ids(schedules)
               /\ schedules[id].user_id = u
               /\ ~schedules[id].is_deleted
            THEN /\ ret'.success
                 /\ Len(schedules') = Len(schedules)
                 /\ schedules'[id].is_deleted
                 /\ Absent(schedules', id)
            ELSE /\ ~ret'.success
                 /\ ret'.message = "not_found"
                 /\ schedules' = schedules

\* C6, afterwards: a deleted row is never a result, is never restored, and no row
\* leaves the table
C6_DeletedIsAbsent ==
    \A i \in Ids(schedules) : schedules[i].is_deleted => Absent(schedules, i)

C6_DeletedForGood ==
    /\ Len(schedules') >= Len(schedules)
    /\ \A i \in Ids(schedules) : schedules[i].is_deleted => schedules'[i].is_deleted

\* C6: softDelete answers NotFound and changes nothing for an id that does not
\* exist, belongs to another owner or is already deleted; for a non-deleted event
\* of the owner it succeeds, the event is absent from every later listByWindow and
\* candidatesForReminder result, and the number of records is unchanged.
C6_SoftDelete ==
    [] C6_DeletedIsAbsent /\ [][C6_DeleteStep /\ C6_DeletedForGood]_vars

\* C6 witness: a softDelete has just succeeded on one of two rows
C6_Witness ==
    /\ ret.op = "delete" /\ ret.success
    /\ Len(schedules) = 2
    /\ \E i \in Ids(schedules) : schedules[i].is_deleted

-----------------------------------------------------------------------------
(* get_schedules on large tables (specification SpecList).  The table is   *)
(* drawn from stores that n successful adds, one delete and a second owner *)
(* produce; row i holds title "a" or "b" by the parity of i and two rows   *)
(* share each event time.                                                  *)

MaxListRows == 52       \* rows of the largest table
ListBounds == {<<>>, <<2>>, <<25>>}
ListUsers == Users

ListRow(n, pattern, del, other, i) ==
    [NewRow(IF i = other THEN "u2" ELSE "u1",
            IF i % 2 = 1 THEN "a" ELSE "b",
            IF pattern = "asc" THEN (i + 1) \div 2 ELSE (n - i) \div 2 + 1)
     EXCEPT !.is_deleted = (i = del)]

ListStore(n, pattern, del, other) ==
    [i \in 1..n |-> ListRow(n, pattern, del, other, i)]

InitList ==
    /\ \E n \in 0..MaxListRows :
       \E pattern \in {"asc", "desc"} :
       \E del \in {0, 1, n}, other \in {0, 2} :
          schedules = ListStore(n, pattern, del, other)
    /\ now = 0
    /\ ticks = 0
    /\ adding = <<>>
    /\ ret = NoRet
    /\ is_running = FALSE
    /\ threads = <<>>
    /\ sent = [p \in (1..MaxRows) \X ReminderTypes |-> 0]
    /\ failed = <<>>
    /\ reply = NoReply

NextList ==
    \/ \E u \in ListUsers, s \in ListBounds, e \in ListBounds : list_schedules(u, s, e)
    \/ \E u \in ListUsers, s \in ListBounds, e \in ListBounds :
          list_schedules_error(u, s, e)

SpecList == InitList /\ [][NextList]_vars

\* the rows listByWindow(owner, start?, end?) is about
InListWindow(rows, user_id, start_time, end_time) ==
    {i \in Ids(rows) :
        /\ rows[i].user_id = user_id
        /\ ~rows[i].is_deleted
        /\ (start_time = <<>> \/ start_time[1] <= rows[i].event_time)
        /\ (end_time = <<>> \/ rows[i].event_time <= end_time[1])}

\* res lists rows of the window only, each once, in ascending event time
ListsWindowAscending(rows, res, window) ==
    /\ Range(res) \subseteq window
    /\ \A k, l \in DOMAIN res :
          k < l => res[k] # res[l] /\ rows[res[k]].event_time <= rows[res[l]].event_time

\* C7 as claimed: the result holds every row of the window
C7_ListStepEvery ==
    \A u \in ListUsers, s \in ListBounds, e \in ListBounds :
        list_schedules(u, s, e) =>
            /\ ListsWindowAscending(schedules, ret'.rows, InListWindow(schedules, u, s, e))
            /\ Range(ret'.rows) = InListWindow(schedules, u, s, e)

C7_ListStepFirst50 ==
    \A u \in ListUsers, s \in ListBounds, e \in ListBounds :
        list_schedules(u, s, e) =>
            LET window == InListWindow(schedules, u, s, e)
                res == ret'.rows
            IN  /\ ListsWindowAscending(schedules, res, window)
                /\ Len(res) = Min(DefaultLimit, Cardinality(window))
                /\ \A i \in window \ Range(res) : \A k \in DOMAIN res :
                      schedules[res[k]].event_time <= schedules[i].event_time
                /\ \A i \in window :
                      Cardinality({j \in window \ {i} :
                                      schedules[j].event_time <= schedules[i].event_time})
                          < DefaultLimit
                        => Cardinality({k \in DOMAIN res : res[k] = i}) = 1

-----------------------------------------------------------------------------
(* The threshold evaluation on every distance (specification SpecEval):    *)
(* one event, any minutes until it, any flags, and a cycle about to query. *)

MaxMinutes == 1500
EvalClocks == {0, 1000}

InitEval ==
    /\ \E m \in 0..MaxMinutes, t \in EvalClocks :
       \E f1 \in BOOLEAN, f2 \in BOOLEAN, f3 \in BOOLEAN :
          /\ now = t
          /\ schedules = <<[NewRow("u1", "a", t + m)
                            EXCEPT !.is_notified_1day = f1,
                                   !.is_notified_1hour = f2,
                                   !.is_notified_15min = f3]>>
    /\ ticks = 0
    /\ adding = <<>>
    /\ ret = NoRet
    /\ is_running = TRUE
    /\ threads = <<[pc |-> "cycle", reminders |-> <<>>]>>
    /\ sent = [p \in (1..MaxRows) \X ReminderTypes |-> 0]
    /\ failed = <<>>
    /\ reply = NoReply

NextEval ==
    \E th \in 1..MaxThreads : fetch_reminders(th)

SpecEval == InitEval /\ [][NextEval]_vars

\* the reference: OneDay, else OneHour, else FifteenMin, else none
Reference(minutesUntil, notified) ==
    IF minutesUntil \in 1410..1470 /\ "1day" \notin notified THEN "1day"
    ELSE IF minutesUntil \in 55..65 /\ "1hour" \notin notified THEN "1hour"
    ELSE IF minutesUntil \in 13..17 /\ "15min" \notin notified THEN "15min"
    ELSE "none"

\* C8: for every minutesUntil and every notified set the threshold the reminder
\* query selects for an event is the reference one, so at most one per pass
\* (1410 -> OneDay, 60 -> OneHour, 16 -> FifteenMin, 30 -> none, 1410 with OneDay
\* notified -> none).
C8_SelectsReference ==
    \A th \in 1..Len(threads) :
        threads[th].pc \in {"send", "sleep"} =>
            LET row == schedules[1]
                expected == Reference(row.event_time - now, Notified(row))
            IN  /\ Len(threads[th].reminders) <= 1
                /\ threads[th].reminders =
                      IF expected = "none" THEN <<>>
                      ELSE <<[id |-> 1, user_id |-> row.user_id,
                              reminder_type |-> expected]>>
                /\ (row.event_time - now = 1410 /\ Notified(row) = {})
                      => threads[th].reminders[1].reminder_type = "1day"
                /\ (row.event_time - now = 60 /\ Notified(row) = {})
                      => threads[th].reminders[1].reminder_type = "1hour"
                /\ (row.event_time - now = 16 /\ Notified(row) = {})
                      => threads[th].reminders[1].reminder_type = "15min"
                /\ (row.event_time - now = 30 /\ Notified(row) = {})
                      => threads[th].reminders = <<>>
                /\ (row.event_time - now = 1410 /\ Notified(row) = {"1day"})
                      => threads[th].reminders = <<>>

\* C8 witness: the query has selected FifteenMin at 16 minutes for an event whose
\* OneDay and OneHour are notified
C8_Witness ==
    /\ threads # <<>>
    /\ threads[1].pc = "send"
    /\ schedules[1].event_time - now = 16
    /\ Notified(schedules[1]) = {"1day", "1hour"}
    /\ threads[1].reminders[1].reminder_type = "15min"

-----------------------------------------------------------------------------
(* Properties of start and stop (specification SpecLoop) *)

\* C11: no step taken while is_running spawns a polling activity or changes
\* the ones there are into more (start while Running is a no-op), and the
\* step that turns is_running from FALSE to TRUE appends exactly one
\* activity, in its warm-up, leaving the earlier ones as they were; no
\* other step changes the number of activities.
C11_StartStep ==
    /\ is_running => Len(threads') = Len(threads)
    /\ Len(threads') # Len(threads) => ~is_running /\ is_running'
    /\ ~is_running /\ is_running' =>
          /\ Len(threads') = Len(threads) + 1
          /\ SubSeq(threads', 1, Len(threads)) = threads
          /\ threads'[Len(threads')] = [pc |-> "warmup", reminders |-> <<>>]

C11_StartSpawnsOnceWhenStopped == [][C11_StartStep]_vars

\* C11 witness: start was called while Stopped a second time (after a stop):
\* the state is Running and the second call added one activity to the first
C11_Witness ==
    /\ is_running
    /\ Len(threads) = 2
    /\ threads[2].pc = "warmup"

\* the steps a polling activity can take on the head item of its cycle:
\* the push is delivered (on to the mark), or the item is done with
ItemStep(before, after) ==
    \/ after = before
    \/ before.pc = "send" /\ after = [before EXCEPT !.pc = "mark"]
    \/ after = NextItem(before)

\* C12 (first half): a cycle in progress is not interrupted by stop(): also
\* while is_running is FALSE an activity inside a cycle only moves from item
\* to item, each item getting its push and, after a delivered push, its mark.
C12_CycleNotInterrupted ==
    \A th \in 1..Len(threads) :
        ~is_running /\ threads[th].pc \in {"send", "mark"} =>
            /\ ItemStep(threads[th], threads'[th])
            /\ threads'[th].pc = "sleep" => Len(threads[th].reminders) = 1

\* C12 (second half): an activity that was stopped begins no further cycle.
\* A later activity exists only if stop() was called after this one was
\* spawned, so an activity with a successor has been stopped.
C12_StoppedBeginsNoCycle ==
    \A th \in 1..Len(threads) :
        Len(threads) > th => ~(threads[th].pc = "loop" /\ threads'[th].pc = "cycle")

\* C12: stop() never interrupts the cycle in progress, and the activity
\* that was stopped begins no further cycle afterwards (none at all when it
\* was stopped in its warm-up).
C12_StopEndsLoopAfterCycle ==
    [][C12_CycleNotInterrupted /\ C12_StoppedBeginsNoCycle]_vars

\* C12 (first half alone)
C12_InFlightCycleFinishes == [][C12_CycleNotInterrupted]_vars

-----------------------------------------------------------------------------
(* Per-item isolation and the life of the loop (specifications Spec, SpecLoop) *)

\* C13 (state part): an activity is inside a cycle exactly while it holds
\* items not yet done with, and it stands before a mark only after the push
\* of that item was delivered.
C13_ItemsPending ==
    \A th \in 1..Len(threads) :
        /\ threads[th].pc \in {"send", "mark"} <=> threads[th].reminders # <<>>
        /\ threads[th].pc = "mark" =>
              sent[<<Head(threads[th].reminders).id,
                     Head(threads[th].reminders).reminder_type>>] >= 1

\* C13 (step part): the cycle starts on everything the reminder query
\* returned; an item leaves the list only after its own push attempt (a
\* failed push, recorded, or a delivered push followed by the mark or a
\* failed mark), and then the activity stands before the push of the next
\* item: no failure drops the items behind it.
C13_ItemStep ==
    \A th \in 1..Len(threads) :
        /\ threads[th].pc = "cycle" /\ threads'[th].pc = "send" =>
              threads'[th].reminders = get_schedules_for_reminder(schedules, now)
        /\ threads[th].pc \in {"send", "mark"} =>
              /\ ItemStep(threads[th], threads'[th])
              /\ threads[th].pc = "send" /\ threads'[th] # threads[th]
                      /\ threads'[th].pc # "mark" =>
                    failed' = <<Head(threads[th].reminders).id,
                                Head(threads[th].reminders).reminder_type, now>>
              /\ Len(threads[th].reminders) > 1 /\ threads'[th].pc # threads[th].pc =>
                    threads'[th].pc \in {"send", "mark"}

\* C13: within one cycle a push failure or a mark failure for one due item
\* does not keep the other due items of that cycle from their push attempt
\* and, after a delivered push, their mark.
C13_EveryItemAttempted == []C13_ItemsPending /\ [][C13_ItemStep]_vars

\* C13 witness: the push of one due item failed and the cycle went on: the
\* push of the next item was delivered and its mark is about to run.
C13_Witness ==
    /\ ticks = 0
    /\ Len(threads) = 1
    /\ threads[1].pc = "mark"
    /\ Len(threads[1].reminders) = 1
    /\ failed # <<>>
    /\ failed[1] # Head(threads[1].reminders).id
    /\ ~schedules[failed[1]].is_deleted
    /\ sent[<<failed[1], failed[2]>>] = 0

\* The polling loop with a scheduler that lets a sleeping thread wake up and
\* a woken thread test its loop condition: time.sleep returns, and the
\* thread then runs.
SpecFair ==
    /\ Spec
    /\ \A th \in 1..MaxThreads : WF_vars(wake(th)) /\ WF_vars(check_loop(th))

\* C14 (step part): the loop ends only at its test, with is_running FALSE;
\* whatever ends a cycle (the query failing, the last push or mark failing
\* or succeeding) leaves the activity in its inter-cycle sleep.
C14_LoopStep ==
    \A th \in 1..Len(threads) :
        /\ threads'[th].pc = "exited" /\ threads[th].pc # "exited" =>
              threads[th].pc = "loop" /\ ~is_running
        /\ threads[th].pc \in {"cycle", "send", "mark"}
              /\ threads'[th].pc \notin {"cycle", "send", "mark"} =>
              threads'[th].pc = "sleep"

\* C14 (progress part): an activity in its inter-cycle sleep starts the next
\* cycle, unless is_running has been cleared meanwhile.
PcIs(th, pc) == IF th \in 1..Len(threads) THEN threads[th].pc = pc ELSE FALSE

C14_SleepLeadsToCycle ==
    \A th \in 1..MaxThreads :
        PcIs(th, "sleep") ~> (PcIs(th, "cycle") \/ ~is_running)

\* C14: no push error and no store error inside a cycle ends the polling
\* loop while the scheduler is Running: the cycle ends in the sleep, and
\* after the sleep the next cycle starts.
C14_LoopSurvivesErrors == [][C14_LoopStep]_vars /\ C14_SleepLeadsToCycle

\* C14 witness: a push failed in a cycle of the only activity, and that
\* activity, still Running, has started a later cycle.
C14_Witness ==
    /\ is_running
    /\ Len(threads) = 1
    /\ threads[1].pc = "cycle"
    /\ failed # <<>>

\* C15 (step part): a row's notified set changes only in the mark step of an
\* activity whose head item is that row, by exactly the item's threshold;
\* a new row starts with the empty set; an activity comes to stand before a
\* mark only by the delivered push of the same item.
C15_NotifiedStep ==
    /\ \A i \in Ids(schedules') \ Ids(schedules) : Notified(schedules'[i]) = {}
    /\ \A i \in Ids(schedules) :
          Notified(schedules'[i]) # Notified(schedules[i]) =>
             \E th \in 1..Len(threads) :
                /\ threads[th].pc = "mark"
                /\ Head(threads[th].reminders).id = i
                /\ Notified(schedules'[i]) =
                      Notified(schedules[i]) \cup {Head(threads[th].reminders).reminder_type}
                /\ threads'[th] = NextItem(threads[th])
    /\ \A th \in 1..Len(threads) :
          threads'[th].pc = "mark" /\ threads[th].pc # "mark" =>
             /\ threads[th].pc = "send"
             /\ threads'[th].reminders = threads[th].reminders
             /\ LET p == <<Head(threads[th].reminders).id,
                           Head(threads[th].reminders).reminder_type>>
                IN  sent'[p] = sent[p] + 1

\* C15: only the polling loop changes a notified set, and only right after
\* the delivered push of that reminder in the same cycle; the add, delete
\* and list handlers leave every notified set as it is.
C15_NotifiedOnlyAfterPush == [][C15_NotifiedStep]_vars

\* C15 witness: one event's 1hour reminder was pushed once and marked, and a
\* second event was added and soft-deleted with its notified set still
\* empty, so that the handlers and the loop have all acted.
C15_Witness ==
    /\ Len(schedules) = 2
    /\ \E i \in Ids(schedules) :
          /\ Notified(schedules[i]) = {"1hour"}
          /\ sent[<<i, "1hour">>] = 1
    /\ \E j \in Ids(schedules) : Notified(schedules[j]) = {} /\ schedules[j].is_deleted

-----------------------------------------------------------------------------
(* The store's two UPDATE operations called from several connections.      *)
(* mark_as_notified and delete_schedule each run one UPDATE statement and  *)
(* commit; SQLite runs a statement under the database write lock, so each  *)
(* call is one step and concurrent callers are interleavings of steps.     *)

\* names a caller may pass as reminder_type: the three columns and one
\* that column_map does not know
MarkTypes == ReminderTypes \cup {"2day"}

\* a call of mark_as_notified(schedule_id, reminder_type) on some connection
mark_as_notified_call(schedule_id, rtype) ==
    /\ schedules' = mark_as_notified(schedules, schedule_id, rtype)
    /\ ret' = Ret("mark_as_notified", TRUE, schedule_id, rtype, <<>>)
    /\ UNCHANGED <<now, ticks, adding, is_running, threads, sent, failed, reply>>

\* two events of two owners, as two add_schedule calls leave them
InitMark ==
    /\ schedules = <<NewRow("u1", "a", 61), NewRow("u2", "a", 1411)>>
    /\ now = 0
    /\ ticks = 0
    /\ adding = <<>>
    /\ ret = NoRet
    /\ is_running = FALSE
    /\ threads = <<>>
    /\ sent = [p \in (1..MaxRows) \X ReminderTypes |-> 0]
    /\ failed = <<>>
    /\ reply = NoReply

NextMark ==
    \/ \E id \in 1..(MaxRows + 1), t \in MarkTypes : mark_as_notified_call(id, t)
    \/ \E id \in 1..(MaxRows + 1), u \in Users : delete_schedule(id, u)
    \/ \E id \in 1..(MaxRows + 1), u \in Users : delete_schedule_error(id, u)

SpecMark == InitMark /\ [][NextMark]_vars

-----------------------------------------------------------------------------
(* Properties of mark_as_notified and delete_schedule (specification SpecMark) *)

\* what one mark_as_notified(id, t) may change between two stores: the
\* threshold t joins the notified set of row id, nothing else differs
OnlyFlagAdded(before, after, id, t) ==
    /\ Len(after) = Len(before)
    /\ \A j \in Ids(before) :
          IF j = id
          THEN /\ Notified(after[j]) = Notified(before[j]) \cup {t}
               /\ after[j].is_deleted = before[j].is_deleted
               /\ after[j].user_id = before[j].user_id
               /\ after[j].title = before[j].title
               /\ after[j].event_time = before[j].event_time
          ELSE after[j] = before[j]

\* C16 (state part): on every store the calls reach, marking once and
\* marking again give the same store; for a known threshold and an existing
\* row that store differs from the old one in that flag alone, and for an
\* unknown threshold name (or an unknown id) it is the old store.
C16_MarkOnceOrTwice ==
    \A id \in 1..(MaxRows + 1), t \in MarkTypes :
        LET once == mark_as_notified(schedules, id, t)
            twice == mark_as_notified(once, id, t)
        IN  /\ twice = once
            /\ IF id \in Ids(schedules) /\ t \in ReminderTypes
               THEN OnlyFlagAdded(schedules, once, id, t)
               ELSE once = schedules

\* C16 (step part): a call of mark_as_notified changes the store by its one
\* flag at most, and not at all when the flag is set already or the
\* threshold name is unknown.
C16_MarkStep ==
    ret'.op = "mark_as_notified" /\ schedules' # schedules =>
        /\ ret'.message \in ReminderTypes
        /\ ret'.id \in Ids(schedules)
        /\ ret'.message \notin Notified(schedules[ret'.id])
        /\ OnlyFlagAdded(schedules, schedules', ret'.id, ret'.message)

\* C16: mark_as_notified is idempotent and touches only the flag it names.
C16_MarkIdempotentOneFlag == []C16_MarkOnceOrTwice /\ [][C16_MarkStep]_vars

\* C16 witness: the last call marked 1hour on event 1, which was
\* soft-deleted and marked 1day before; both are kept and event 2 is untouched.
C16_Witness ==
    /\ ret = Ret("mark_as_notified", TRUE, 1, "1hour", <<>>)
    /\ Notified(schedules[1]) = {"1day", "1hour"}
    /\ schedules[1].is_deleted
    /\ schedules[2] = NewRow("u2", "a", 1411)

\* C17 (nothing lost): no call takes back a notified flag or a deleted flag
\* that is set.
C17_NothingLost ==
    \A i \in Ids(schedules) :
        /\ Notified(schedules[i]) \subseteq Notified(schedules'[i])
        /\ schedules[i].is_deleted => schedules'[i].is_deleted

\* C17 (effect there): when a call has completed its effect is in the store:
\* the flag after a mark_as_notified of an existing row, the deleted flag
\* of one more row after a successful delete_schedule.
C17_EffectInStore ==
    /\ ret'.op = "mark_as_notified" /\ ret'.id \in Ids(schedules)
            /\ ret'.message \in ReminderTypes =>
          ret'.message \in Notified(schedules'[ret'.id])
    /\ ret'.op = "delete" /\ ret'.success =>
          \E i \in Ids(schedules) : ~schedules[i].is_deleted /\ schedules'[i].is_deleted

\* C17 (order): two marks give the same store in either order.
C17_MarksCommute ==
    \A id1 \in Ids(schedules), id2 \in Ids(schedules), t1 \in ReminderTypes,
       t2 \in ReminderTypes :
        mark_as_notified(mark_as_notified(schedules, id1, t1), id2, t2)
            = mark_as_notified(mark_as_notified(schedules, id2, t2), id1, t1)

\* C17: marks and soft-deletes of concurrent callers on the same event,
\* interleaved in any order, all leave their effect: no notified flag and no
\* deleted flag is lost.
C17_NoLostUpdate ==
    []C17_MarksCommute /\ [][C17_NothingLost /\ C17_EffectInStore]_vars

\* C17 witness: event 2 was marked for two thresholds and soft-deleted, the
\* delete coming before the last mark; all three effects are in the store.
C17_Witness ==
    /\ ret = Ret("mark_as_notified", TRUE, 2, "15min", <<>>)
    /\ Notified(schedules[2]) = {"1day", "15min"}
    /\ schedules[2].is_deleted

-----------------------------------------------------------------------------
(* schedule_parser.py and app.py: the inbound commands of handle_message,  *)
(* each handled in one step, with the texts it passes to reply_message.    *)
(* reply_message logs a failure of the LINE API and returns, so a call of  *)
(* it counts as the reply being issued.                                    *)

\* minutes between the parser's now and the time the LLM answers with
ParserOffsets == {-1, 0, 1, 14, 58, 1420, 1440}

\* titles the LLM answers with, before strip()
RawTitles == {"", " ", " a", "a"}

\* str.strip() on the titles above
Strip(s) == IF s = " " THEN "" ELSE IF s = " a" THEN "a" ELSE s

\* the default title '待辦事項'
DefaultTitle == "todo"

\* what _call_groq returns: nothing ("none"), text without a JSON object
\* ("no_json"), JSON with success false ("failed"), JSON whose datetime fits
\* none of the formats ("bad_time"), JSON whose title is null ("null_title"),
\* or a well-formed answer ("ok")
LlmResponses ==
    {[kind |-> k, offset |-> 0, title |-> ""] :
        k \in {"none", "no_json", "failed", "bad_time"}}
    \cup {[kind |-> "null_title", offset |-> o, title |-> ""] : o \in ParserOffsets}
    \cup {[kind |-> "ok", offset |-> o, title |-> t] : o \in ParserOffsets, t \in RawTitles}

ParseResult(success, event_time, title, error) ==
    [success |-> success, event_time |-> event_time, title |-> title, error |-> error]

\* mutant: the past check lets a time equal to now through
process_response_accepting_now(llm, t) ==
    IF llm.kind = "no_json" THEN ParseResult(FALSE, 0, "", "format")
    ELSE IF llm.kind = "failed" THEN ParseResult(FALSE, 0, "", "not_understood")
    ELSE IF llm.kind = "bad_time" THEN ParseResult(FALSE, 0, "", "time_format")
    ELSE LET event_time == t + llm.offset
         IN  IF event_time < t THEN ParseResult(FALSE, 0, "", "past")
             ELSE IF llm.kind = "null_title"
                  THEN ParseResult(FALSE, 0, "", "process_error")
             ELSE LET title == Strip(llm.title)
                  IN  ParseResult(TRUE, event_time,
                                  IF title = "" THEN DefaultTitle ELSE title, "")


\* _process_response(response_text, now)
process_response(llm, t) ==
    IF llm.kind = "no_json" THEN ParseResult(FALSE, 0, "", "format")
    ELSE IF llm.kind = "failed" THEN ParseResult(FALSE, 0, "", "not_understood")
    ELSE IF llm.kind = "bad_time" THEN ParseResult(FALSE, 0, "", "time_format")
    ELSE LET event_time == t + llm.offset
         IN  IF event_time <= t THEN ParseResult(FALSE, 0, "", "past")
             ELSE IF llm.kind = "null_title"
                  THEN ParseResult(FALSE, 0, "", "process_error")
             ELSE LET title == Strip(llm.title)
                  IN  ParseResult(TRUE, event_time,
                                  IF title = "" THEN DefaultTitle ELSE title, "")

\* parse(text): the LLM call, then _process_response
parse(llm, t) ==
    IF llm.kind = "none" THEN ParseResult(FALSE, 0, "", "unavailable")
    ELSE process_response(llm, t)

\* a text handed to reply_message: its kind, the schedule id it names (0:
\* none), the reminders it announces, the rows it lists
Text(kind, id, reminders, rows) ==
    [kind |-> kind, id |-> id, reminders |-> reminders, rows |-> rows]

\* create_schedule_confirmation: time_diff is in hours, compared with 24, 1, 0.25
create_schedule_confirmation(schedule_id, title, event_time, t) ==
    LET time_diff == event_time - t
    IN  Text("confirmation", schedule_id,
             {r \in ReminderTypes :
                 \/ r = "1day" /\ time_diff >= 24 * 60
                 \/ r = "1hour" /\ time_diff >= 60
                 \/ r = "15min" /\ time_diff >= 15},
             <<>>)


\* the list commands and their windows: get_today_schedules,
\* get_tomorrow_schedules, get_week_schedules, get_all_upcoming_schedules.
\* Minute 0 is the midnight that begins a Monday.
Periods == {"today", "tomorrow", "week", "all"}

DayStart(t) == t - (t % 1440)

Weekday(t) == (t \div 1440) % 7

PeriodStart(period, t) ==
    IF period = "today" THEN DayStart(t)
    ELSE IF period = "tomorrow" THEN DayStart(t + 1440)
    ELSE IF period = "week" THEN DayStart(t - Weekday(t) * 1440)
    ELSE t

PeriodEnd(period, t) ==
    IF period = "all" THEN <<>>
    ELSE IF period = "week" THEN <<PeriodStart(period, t) + 7 * 1440>>
    ELSE <<PeriodStart(period, t) + 1440>>

\* numbers a delete command may carry; NoNumber: the text holds no digits
NoNumber == -1

\* handle_add_schedule: parse, db.add_schedule, one reply_message
handle_message_add(user_id, llm) ==
    /\ LET r == parse(llm, now)
       IN  IF ~r.success
           THEN /\ reply' = Reply("add", <<Text(r.error, 0, {}, <<>>)>>)
                /\ UNCHANGED schedules
           ELSE IF DuplicateSelect(schedules, user_id, r.title, r.event_time) # {}
           THEN /\ reply' = Reply("add", <<Text("exists", 0, {}, <<>>)>>)
                /\ UNCHANGED schedules
           ELSE IF UniqueViolated(schedules, user_id, r.title, r.event_time)
           THEN /\ reply' = Reply("add", <<Text("integrity", 0, {}, <<>>)>>)
                /\ UNCHANGED schedules
           ELSE /\ Len(schedules) < MaxRows
                /\ schedules' = Append(schedules, NewRow(user_id, r.title, r.event_time))
                /\ reply' = Reply("add",
                      <<create_schedule_confirmation(Len(schedules) + 1, r.title,
                                                     r.event_time, now)>>)
    /\ UNCHANGED <<now, ticks, adding, ret, is_running, threads, sent, failed>>

\* the store fails inside db.add_schedule: it returns (False, None, '新增失敗')
handle_message_add_store_error(user_id, llm) ==
    /\ parse(llm, now).success
    /\ reply' = Reply("add", <<Text("add_failed", 0, {}, <<>>)>>)
    /\ UNCHANGED <<schedules, now, ticks, adding, ret, is_running, threads, sent, failed>>

\* handle_delete_schedule: the number in the text, db.delete_schedule, one reply
handle_message_delete(user_id, number) ==
    /\ IF number = NoNumber
       THEN /\ reply' = Reply("delete", <<Text("no_number", 0, {}, <<>>)>>)
            /\ UNCHANGED schedules
       ELSE IF DeleteMatches(schedules, number, user_id)
       THEN /\ schedules' = [schedules EXCEPT ![number].is_deleted = TRUE]
            /\ reply' = Reply("delete", <<Text("deleted", number, {}, <<>>)>>)
       ELSE /\ reply' = Reply("delete", <<Text("not_found", 0, {}, <<>>)>>)
            /\ UNCHANGED schedules
    /\ UNCHANGED <<now, ticks, adding, ret, is_running, threads, sent, failed>>

\* the store fails inside db.delete_schedule: it returns (False, '刪除失敗')
handle_message_delete_store_error(user_id, number) ==
    /\ number # NoNumber
    /\ reply' = Reply("delete", <<Text("delete_failed", 0, {}, <<>>)>>)
    /\ UNCHANGED <<schedules, now, ticks, adding, ret, is_running, threads, sent, failed>>

\* show_today_schedules and the other three: the query, format_schedule_list,
\* one reply
handle_message_show(user_id, period) ==
    /\ reply' = Reply("show",
          <<Text("list", 0, {},
                 get_schedules(schedules, user_id, <<PeriodStart(period, now)>>,
                               PeriodEnd(period, now), DefaultLimit))>>)
    /\ UNCHANGED <<schedules, now, ticks, adding, ret, is_running, threads, sent, failed>>

\* the store fails inside get_schedules, which catches nothing: the exception
\* leaves show_*_schedules and handle_message before reply_message is reached
handle_message_show_store_error(user_id, period) ==
    /\ reply' = Reply("show", <<>>)
    /\ UNCHANGED <<schedules, now, ticks, adding, ret, is_running, threads, sent, failed>>

\* show_help
handle_message_help ==
    /\ reply' = Reply("help", <<Text("help", 0, {}, <<>>)>>)
    /\ UNCHANGED <<schedules, now, ticks, adding, ret, is_running, threads, sent, failed>>

\* clock readings at which the commands arrive
AppClocks == {0, 1000}

InitApp ==
    /\ schedules = <<>>
    /\ now \in AppClocks
    /\ ticks = 0
    /\ adding = <<>>
    /\ ret = NoRet
    /\ is_running = FALSE
    /\ threads = <<>>
    /\ sent = [p \in (1..MaxRows) \X ReminderTypes |-> 0]
    /\ failed = <<>>
    /\ reply = NoReply

NextApp ==
    \/ \E u \in LoopUsers, llm \in LlmResponses : handle_message_add(u, llm)
    \/ \E u \in LoopUsers, llm \in LlmResponses : handle_message_add_store_error(u, llm)
    \/ \E u \in Users, n \in {NoNumber} \cup 0..(MaxRows + 1) : handle_message_delete(u, n)
    \/ \E u \in Users, n \in {NoNumber} \cup 0..(MaxRows + 1) :
          handle_message_delete_store_error(u, n)
    \/ \E u \in LoopUsers, p \in Periods : handle_message_show(u, p)
    \/ \E u \in LoopUsers, p \in Periods : handle_message_show_store_error(u, p)
    \/ handle_message_help

SpecApp == InitApp /\ [][NextApp]_vars

-----------------------------------------------------------------------------
(* Properties of the inbound commands (specification SpecApp) *)

\* the thresholds whose reminder window is not over minutesUntil minutes
\* before the event: the windows end at 1410, 55 and 13 minutes
OpenWindows(minutesUntil) ==
    {r \in ReminderTypes :
        \/ r = "1day" /\ minutesUntil >= 1410
        \/ r = "1hour" /\ minutesUntil >= 55
        \/ r = "15min" /\ minutesUntil >= 13}

\* the step of a successful add: one more row
Added == Len(schedules') > Len(schedules)

\* C18: the confirmation of a newly added event lists a threshold exactly
\* when its window has not passed at creation time: 1day iff minutesUntil
\* >= 1410, 1hour iff >= 55, 15min iff >= 13.
C18_ConfirmationListsOpenWindows ==
    [][Added =>
          /\ Len(reply'.texts) = 1
          /\ reply'.texts[1].kind = "confirmation"
          /\ reply'.texts[1].reminders =
                OpenWindows(schedules'[Len(schedules')].event_time - now)]_vars

\* C18 (what the code does): the confirmation lists 1day from 1440 minutes
\* on, 1hour from 60 and 15min from 15.
C18_ConfirmationListsWholeLeads ==
    [][Added =>
          LET m == schedules'[Len(schedules')].event_time - now
          IN  reply'.texts[1].reminders =
                 {r \in ReminderTypes :
                     \/ r = "1day" /\ m >= 1440
                     \/ r = "1hour" /\ m >= 60
                     \/ r = "15min" /\ m >= 15}]_vars

\* C19: every inbound command handled has exactly one reply_message call
\* made for it, whatever its outcome.
C19_ExactlyOneReply == reply.cmd # "none" => Len(reply.texts) = 1

\* C19 (commands other than the list commands)
C19_OneReplyUnlessList ==
    reply.cmd \notin {"none", "show"} => Len(reply.texts) = 1

\* C20 (step part): a row is inserted only with an event_time later than the
\* now of its parse and with a title that is not empty, and a step that
\* answers with a rejection inserts nothing.
C20_InsertStep ==
    /\ Added =>
          /\ Len(schedules') = Len(schedules) + 1
          /\ schedules'[Len(schedules')].event_time > now
          /\ schedules'[Len(schedules')].title # ""
    /\ schedules' # schedules =>
          /\ Len(reply'.texts) = 1
          /\ reply'.texts[1].kind \in {"confirmation", "deleted"}

\* C20 (state part): no stored title is empty or has blanks around it
C20_TitlesNonEmpty ==
    \A i \in Ids(schedules) : schedules[i].title \in {"a", DefaultTitle}

\* C20: every event inserted by the add command has an event_time strictly
\* after the now used to parse it and a non-empty title; a time at or before
\* now is rejected without an insert, an empty title becomes the default.
C20_FutureAndTitled == []C20_TitlesNonEmpty /\ [][C20_InsertStep]_vars

\* C20 witness: an event whose parsed title was empty is stored under the
\* default title, and the last command, a time at or before now, was
\* rejected.
C20_Witness ==
    /\ \E i \in Ids(schedules) : schedules[i].title = DefaultTitle
    /\ reply = Reply("add", <<Text("past", 0, {}, <<>>)>>)

-----------------------------------------------------------------------------
(* Concurrent activities (specifications SpecLoop, Spec) *)

\* the polling activities that have not left their loop
Alive == {th \in 1..Len(threads) : threads[th].pc # "exited"}

\* the polling activities inside a cycle
InCycle == {th \in 1..Len(threads) : threads[th].pc \in {"cycle", "send", "mark"}}

\* C21: over any sequence of start() and stop() calls at most one polling
\* activity is alive and able to execute cycles: while is_running is set
\* there are never two activities still in their loop, and never are two
\* activities inside a cycle at once.
C21_AtMostOneActivity ==
    /\ is_running => Cardinality(Alive) <= 1
    /\ Cardinality(InCycle) <= 1

\* C22 (push): no push is delivered for an event that is soft-deleted at
\* the moment of the push.
C22_NoPushForDeleted ==
    \A p \in DOMAIN sent :
        sent'[p] > sent[p] => p[1] \in Ids(schedules) /\ ~schedules[p[1]].is_deleted

\* C22 (mark): no notified flag is set on an event that is soft-deleted.
C22_NoMarkForDeleted ==
    \A i \in Ids(schedules) :
        Notified(schedules'[i]) # Notified(schedules[i]) => ~schedules[i].is_deleted

\* C22: an event soft-deleted after the cycle fetched its due list and
\* before its dispatch is neither pushed nor marked by that cycle.
C22_DeletedNotDispatched == [][C22_NoPushForDeleted /\ C22_NoMarkForDeleted]_vars

-----------------------------------------------------------------------------
(* The polling loop in time.  time.sleep(self.check_interval) lasts 60 s;  *)
(* with the time a cycle takes, one or two minutes pass from the start of  *)
(* one cycle to the start of the next.  The warm-up time.sleep(90) counts  *)
(* as two minutes.  Everything succeeds, nothing is deleted, nobody calls  *)
(* stop().                                                                 *)

\* minutes from one poll to the next
SleepMinutes == {1, 2}

\* minutes of the warm-up sleep
WarmupMinutes == {2}

\* event times of an event created at minute 0, more than 1470 minutes ahead
LiveEventTimes == {1471, 1472}

\* time.sleep returns after d minutes
sleep_returns(th, d) ==
    /\ th \in 1..Len(threads)
    /\ \/ threads[th].pc = "warmup" /\ d \in WarmupMinutes
       \/ threads[th].pc = "sleep" /\ d \in SleepMinutes
    /\ now + d <= MaxMinutes
    /\ now' = now + d
    /\ threads' = [threads EXCEPT ![th].pc = "loop"]
    /\ UNCHANGED <<schedules, ticks, adding, ret, is_running, sent, failed, reply>>

InitLive ==
    /\ \E e \in LiveEventTimes : schedules = <<NewRow("u1", "a", e)>>
    /\ now = 0
    /\ ticks = 0
    /\ adding = <<>>
    /\ ret = NoRet
    /\ is_running = TRUE
    /\ threads = <<[pc |-> "warmup", reminders |-> <<>>]>>
    /\ sent = [p \in (1..MaxRows) \X ReminderTypes |-> 0]
    /\ failed = <<>>
    /\ reply = NoReply

NextLive ==
    \/ \E th \in 1..MaxThreads, d \in SleepMinutes \cup WarmupMinutes : sleep_returns(th, d)
    \/ \E th \in 1..MaxThreads : check_loop(th)
    \/ \E th \in 1..MaxThreads : fetch_reminders(th)
    \/ \E th \in 1..MaxThreads : send_push_message(th)
    \/ \E th \in 1..MaxThreads : mark_notified(th)

\* the thread keeps running: each of its steps is taken when it stays possible
SpecLive ==
    /\ InitLive
    /\ [][NextLive]_vars
    /\ \A th \in 1..MaxThreads :
          /\ WF_vars(\E d \in SleepMinutes \cup WarmupMinutes : sleep_returns(th, d))
          /\ WF_vars(check_loop(th))
          /\ WF_vars(fetch_reminders(th))
          /\ WF_vars(send_push_message(th))
          /\ WF_vars(mark_notified(th))

\* C23 (order): a threshold is pushed at most once, and 1hour only after
\* 1day was marked, 15min only after 1hour was marked.
C23_InOrderOnce ==
    \A i \in Ids(schedules) :
        /\ \A t \in ReminderTypes : sent[<<i, t>>] <= 1
        /\ sent[<<i, "1hour">>] = 1 => "1day" \in Notified(schedules[i])
        /\ sent[<<i, "15min">>] = 1 => "1hour" \in Notified(schedules[i])

\* C23 (all three): every event is notified for all three thresholds, each
\* pushed exactly once
C23_AllThree ==
    \A i \in Ids(schedules) :
        /\ Notified(schedules[i]) = ReminderTypes
        /\ \A t \in ReminderTypes : sent[<<i, t>>] = 1

\* C23: with the scheduler Running, polls less than a window apart, an
\* event created more than 1470 minutes ahead and never deleted, and every
\* push and store call succeeding, the event ends up notified for 1day,
\* 1hour and 15min, each pushed exactly once and in that order.
C23_EventuallyAllNotified == []C23_InOrderOnce /\ <>[]C23_AllThree

\* C23 witness: the last of the three reminders has been pushed and marked
\* inside its window, 13 to 17 minutes before the event
C23_Witness ==
    /\ C23_AllThree
    /\ schedules[1].event_time - now \in 13..17

-----------------------------------------------------------------------------
(* The reminder query as a composition (specification Spec) *)

\* the threshold the evaluator selects for row i at clock reading t
Selected(rows, i, t) == Reference(rows[i].event_time - t, Notified(rows[i]))

\* C24: at every clock reading the reminder query returns exactly the
\* non-deleted events with event_time > now for which the threshold
\* evaluator selects a threshold, each once and tagged with that threshold;
\* it returns no event whose event_time is at or before now and none whose
\* minutes until the event lie outside all three windows.
C24_QueryIsComposition ==
    LET res == get_schedules_for_reminder(schedules, now)
        ids == {res[k].id : k \in 1..Len(res)}
    IN  /\ ids = {i \in Ids(schedules) :
                     /\ ~schedules[i].is_deleted
                     /\ schedules[i].event_time > now
                     /\ Selected(schedules, i, now) # "none"}
        /\ Cardinality(ids) = Len(res)
        /\ \A k \in 1..Len(res) :
              /\ res[k].reminder_type = Selected(schedules, res[k].id, now)
              /\ res[k].user_id = schedules[res[k].id].user_id
              /\ schedules[res[k].id].event_time > now
              /\ \E t \in ReminderTypes :
                    InWindow(t, schedules[res[k].id].event_time - now)

\* C24 witness: a cycle has just fetched; of two stored events inside a
\* window one is soft-deleted, and the list holds the other one alone.
C24_Witness ==
    /\ Len(schedules) = 2
    /\ \E i \in Ids(schedules) :
          /\ schedules[i].is_deleted
          /\ \E t \in ReminderTypes : InWindow(t, schedules[i].event_time - now)
    /\ Len(threads) = 1
    /\ threads[1].pc = "send"
    /\ Len(threads[1].reminders) = 1
    /\ threads[1].reminders = get_schedules_for_reminder(schedules, now)

-----------------------------------------------------------------------------
(* The day windows of the list commands (specification SpecApp) *)

\* the ids a list command returns for an owner at the present clock reading
Listed(user_id, period) ==
    Range(get_schedules(schedules, user_id, <<PeriodStart(period, now)>>,
                        PeriodEnd(period, now), DefaultLimit))

\* C25: at one clock reading no event of an owner is returned by both the
\* today list and the tomorrow list, and every event of the today list has
\* its event_time on today's calendar date (an event at 00:00 of the next
\* day belongs to tomorrow only).
C25_DaysPartition ==
    \A u \in Users :
        /\ Listed(u, "today") \cap Listed(u, "tomorrow") = {}
        /\ \A i \in Listed(u, "today") :
              DayStart(schedules[i].event_time) = DayStart(now)

\* C25 (apart from midnight): an event in both lists is at 00:00 of the
\* next day, and an event of the today list is on today's date or at that
\* midnight.
C25_DaysOverlapAtMidnightOnly ==
    \A u \in Users :
        /\ \A i \in Listed(u, "today") \cap Listed(u, "tomorrow") :
              schedules[i].event_time = DayStart(now) + 1440
        /\ \A i \in Listed(u, "today") :
              \/ DayStart(schedules[i].event_time) = DayStart(now)
              \/ schedules[i].event_time = DayStart(now) + 1440

====
